---- MODULE Spec2Model ----
(***************************************************************************)
(* Model of fractal-slicer-4D: the membership test keep_point, the         *)
(* data-parallel lattice generator generate_lattice_conc and the vertex    *)
(* expander generate_vertices.                                             *)
(*                                                                         *)
(* An f64 is modelled as a fixed-point number counted in halves: the model *)
(* integer v stands for the f64 value v * 0.5.  Every value the program    *)
(* computes on lattice points (integers, and integers +/- 0.5) lies on     *)
(* this grid and is exact in f64, so +, -, %, /3 followed by floor, and    *)
(* the comparisons are computed exactly on the grid.                       *)
(***************************************************************************)
EXTENDS Integers, Sequences, FiniteSets

VARIABLES n, threads, pending, held, parts, lattice,
          idx, vertices,
          point, i, j, k, iters, result,
          pc

vars == <<n, threads, pending, held, parts, lattice, idx, vertices,
          point, i, j, k, iters, result, pc>>

genVars == <<threads, pending, held, parts>>
vertVars == <<idx, vertices>>
keepVars == <<point, i, j, k, iters, result>>

(***************************************************************************)
(* Bounds of the model.                                                    *)
(***************************************************************************)
MaxLevel == 2
MaxWorkers == 2
MaxSplits == 2
MaxLen == 3
MaxAbs == 3

(***************************************************************************)
(* f64 values and arithmetic on the grid of halves.                        *)
(***************************************************************************)
Half == 1
One == Half + Half
Three == One + One + One

\* f64::EPSILON is 2^-MantissaBits
MantissaBits == 52

\* the exclusive upper end of the levels run by tests::lattice_size
lattice_size_max_val == 3

\* u64 as f64
AsF64(u) == u * One

\* Rust's % on f64 (fmod): exact, with the sign of the dividend
FRem(a, b) == IF a >= 0 THEN a % b ELSE 0 - ((0 - a) % b)

FAbs(a) == IF a >= 0 THEN a ELSE 0 - a

\* a variant that rounds the quotient up instead of down
FloorDiv3_ceil(a) == ((a + Three - 1) \div Three) * One

\* (a / 3.0).floor()
FloorDiv3(a) == (a \div Three) * One

\* m * 0.5 < 2^-e for a grid value m >= 0, by doubling both sides
RECURSIVE BelowPow2Neg(_, _)
BelowPow2Neg(m, e) ==
    IF m = 0 THEN TRUE
    ELSE IF m >= One THEN FALSE
    ELSE IF e = 0 THEN TRUE
    ELSE BelowPow2Neg(m + m, e - 1)

\* d < error_margin, error_margin = f64::EPSILON
BelowErrorMargin(d) == BelowPow2Neg(d, MantissaBits)

RECURSIVE Pow(_, _)
Pow(b, e) == IF e = 0 THEN 1 ELSE b * Pow(b, e - 1)

(***************************************************************************)
(* Point3                                                                  *)
(***************************************************************************)
Point3(x, y, z) == [x |-> x, y |-> y, z |-> z]

\* the points with integer coordinates in [0, 3^lvl)
Cube(lvl) ==
    LET side == 0 .. (Pow(3, lvl) - 1)
    IN  {Point3(AsF64(x), AsF64(y), AsF64(z)) : x \in side, y \in side, z \in side}

(***************************************************************************)
(* The membership test, variant with the epsilon tolerance.                *)
(***************************************************************************)
NearOne(c) == BelowErrorMargin(FAbs(FRem(c, Three) - One))

\* a variant that needs all three coordinates to have digit 1
is_condition_met_all(a, b, c) == NearOne(a) /\ NearOne(b) /\ NearOne(c)

is_condition_met(a, b, c) ==
    \/ (NearOne(a) /\ NearOne(b))
    \/ (NearOne(a) /\ NearOne(c))
    \/ (NearOne(b) /\ NearOne(c))

\* a variant that needs all three to be positive
are_at_least_two_positive_all(a, b, c) == a > 0 /\ b > 0 /\ c > 0

\* a variant that compares with >= instead of >
are_at_least_two_positive_geq(a, b, c) ==
    \/ (a >= 0 /\ b >= 0)
    \/ (a >= 0 /\ c >= 0)
    \/ (b >= 0 /\ c >= 0)

are_at_least_two_positive(a, b, c) ==
    \/ (a > 0 /\ b > 0)
    \/ (a > 0 /\ c > 0)
    \/ (b > 0 /\ c > 0)

RECURSIVE keep_loop(_, _, _)
keep_loop(a, b, c) ==
    IF are_at_least_two_positive(a, b, c)
    THEN IF is_condition_met(a, b, c)
         THEN FALSE
         ELSE keep_loop(FloorDiv3(a), FloorDiv3(b), FloorDiv3(c))
    ELSE TRUE

keep_point(p) == keep_loop(p.x, p.y, p.z)

(***************************************************************************)
(* The membership test, variant with exact equality.                       *)
(***************************************************************************)
\* a variant that forgets the modulo on the first operand
is_condition_met_exact_nomod(a, b, c) ==
    \/ (a = One /\ FRem(b, Three) = One)
    \/ (a = One /\ FRem(c, Three) = One)
    \/ (FRem(b, Three) = One /\ FRem(c, Three) = One)

is_condition_met_exact(a, b, c) ==
    \/ (FRem(a, Three) = One /\ FRem(b, Three) = One)
    \/ (FRem(a, Three) = One /\ FRem(c, Three) = One)
    \/ (FRem(b, Three) = One /\ FRem(c, Three) = One)

RECURSIVE keep_loop_exact(_, _, _)
keep_loop_exact(a, b, c) ==
    IF are_at_least_two_positive(a, b, c)
    THEN IF is_condition_met_exact(a, b, c)
         THEN FALSE
         ELSE keep_loop_exact(FloorDiv3(a), FloorDiv3(b), FloorDiv3(c))
    ELSE TRUE

keep_point_exact(p) == keep_loop_exact(p.x, p.y, p.z)

(***************************************************************************)
(* keep_point run one loop iteration at a time.                            *)
(***************************************************************************)
IdleGen ==
    /\ threads = 0
    /\ pending = {}
    /\ held = <<>>
    /\ parts = {}

IdleVert ==
    /\ idx = 0
    /\ vertices = {}

InitKeep ==
    /\ n \in 0 .. MaxLevel
    /\ point \in Cube(n)
    /\ i = point.x
    /\ j = point.y
    /\ k = point.z
    /\ iters = 0
    /\ result = FALSE
    /\ pc = "loop"
    /\ lattice = <<>>
    /\ IdleGen
    /\ IdleVert

KeepReject ==
    /\ pc = "loop"
    /\ are_at_least_two_positive(i, j, k)
    /\ is_condition_met(i, j, k)
    /\ result' = FALSE
    /\ iters' = iters + 1
    /\ pc' = "ret"
    /\ UNCHANGED <<n, lattice, genVars, vertVars, point, i, j, k>>

KeepShift ==
    /\ pc = "loop"
    /\ are_at_least_two_positive(i, j, k)
    /\ ~is_condition_met(i, j, k)
    /\ i' = FloorDiv3(i)
    /\ j' = FloorDiv3(j)
    /\ k' = FloorDiv3(k)
    /\ iters' = iters + 1
    /\ UNCHANGED <<n, lattice, genVars, vertVars, point, result, pc>>

KeepAccept ==
    /\ pc = "loop"
    /\ ~are_at_least_two_positive(i, j, k)
    /\ result' = TRUE
    /\ pc' = "ret"
    /\ UNCHANGED <<n, lattice, genVars, vertVars, point, i, j, k, iters>>

NextKeep == KeepReject \/ KeepShift \/ KeepAccept

SpecKeep == InitKeep /\ [][NextKeep]_vars

SpecKeepFair == SpecKeep /\ WF_vars(NextKeep)

(***************************************************************************)
(* generate_lattice_conc: the candidates of the cube in scan order (x, then *)
(* y, then z), numbered 0 .. max_val^3 - 1.  The parallel iterator hands    *)
(* contiguous ranges of candidates (chunks) to the threads of the pool: a   *)
(* thread takes a chunk, may split it and leave one part for another        *)
(* thread, and filters what it keeps into a partial vector; collect joins   *)
(* the partial vectors in the order of the candidates.                      *)
(***************************************************************************)
Levels == 0 .. (lattice_size_max_val - 1)

max_val(lvl) == Pow(3, lvl)

\* the candidate number t of the nested ranges over x, y and z
PointAt(m, t) ==
    Point3(AsF64(t \div (m * m)), AsF64((t \div m) % m), AsF64(t % m))

Chunk(lo, hi) == [lo |-> lo, hi |-> hi]

\* where a chunk may be cut: in the middle, or after its first candidate
SplitPoints(c) ==
    {m \in {c.lo + 1, c.lo + ((c.hi - c.lo) \div 2)} : c.lo < m /\ m < c.hi}

LeftPart(c, mid) == Chunk(c.lo, mid)

\* a variant that loses the candidate at the cut
RightPart_skip(c, mid) == Chunk(mid + 1, c.hi)

RightPart(c, mid) == Chunk(mid, c.hi)

\* keep_point of every candidate of every level, in scan order (keep_point is
\* pure, so each candidate's answer is the same whichever thread asks)
KeepFlags ==
    [lvl \in Levels |->
        [t \in 1 .. (max_val(lvl) * max_val(lvl) * max_val(lvl)) |->
            keep_point(PointAt(max_val(lvl), t - 1))]]

\* .filter(|&point| keep_point(&point)) over the candidates of a chunk
FilterChunk(lvl, c) ==
    LET kept == SelectSeq([u \in 1 .. (c.hi - c.lo) |-> c.lo + u - 1],
                          LAMBDA t : KeepFlags[lvl][t + 1])
    IN  [u \in 1 .. Len(kept) |-> PointAt(max_val(lvl), kept[u])]

\* the partial vectors joined in the order of their first candidate
RECURSIVE JoinParts(_)
JoinParts(ps) ==
    IF ps = {} THEN <<>>
    ELSE LET first == CHOOSE q \in ps : \A r \in ps : q.lo <= r.lo
         IN  first.pts \o JoinParts(ps \ {first})

\* the chunks cut so far, less the first
Splits ==
    Cardinality(pending) + Cardinality({w \in 1 .. threads : held[w] # {}})
        + Cardinality(parts) - 1

Init ==
    /\ n \in Levels
    /\ threads \in 1 .. MaxWorkers
    /\ pending = {Chunk(0, max_val(n) * max_val(n) * max_val(n))}
    /\ held = [w \in 1 .. threads |-> {}]
    /\ parts = {}
    /\ lattice = <<>>
    /\ pc = "par"
    /\ IdleVert
    /\ point = Point3(0, 0, 0)
    /\ i = 0
    /\ j = 0
    /\ k = 0
    /\ iters = 0
    /\ result = FALSE

Take(w) ==
    /\ pc = "par"
    /\ held[w] = {}
    /\ \E c \in pending :
          /\ held' = [held EXCEPT ![w] = {c}]
          /\ pending' = pending \ {c}
    /\ UNCHANGED <<n, threads, parts, lattice, vertVars, keepVars, pc>>

Split(w) ==
    /\ pc = "par"
    /\ \E c \in held[w] :
          /\ Splits < MaxSplits
          /\ \E mid \in SplitPoints(c) :
                /\ held' = [held EXCEPT ![w] = {LeftPart(c, mid)}]
                /\ pending' = pending \cup {RightPart(c, mid)}
    /\ UNCHANGED <<n, threads, parts, lattice, vertVars, keepVars, pc>>

Process(w) ==
    /\ pc = "par"
    /\ \E c \in held[w] :
          /\ parts' = parts \cup {[lo |-> c.lo, pts |-> FilterChunk(n, c), by |-> w]}
          /\ held' = [held EXCEPT ![w] = {}]
    /\ UNCHANGED <<n, threads, pending, lattice, vertVars, keepVars, pc>>

Collect ==
    /\ pc = "par"
    /\ pending = {}
    /\ \A w \in 1 .. threads : held[w] = {}
    /\ lattice' = JoinParts(parts)
    /\ pc' = "done"
    /\ UNCHANGED <<n, threads, pending, held, parts, vertVars, keepVars>>

Next ==
    \/ \E w \in 1 .. threads : Take(w)
    \/ \E w \in 1 .. threads : Split(w)
    \/ \E w \in 1 .. threads : Process(w)
    \/ Collect

Spec == Init /\ [][Next]_vars

(***************************************************************************)
(* Properties of the lattice generator.                                    *)
(***************************************************************************)
Elements(seq) == {seq[t] : t \in 1 .. Len(seq)}

\* no point occurs twice
NoRepeats(seq) == Cardinality(Elements(seq)) = Len(seq)

\* C1: for every level, number of threads, partition of the candidates and
\* interleaving, the returned vector holds every point of [0, 3^n)^3 that
\* keep_point accepts exactly once and no other point; the result depends on n
\* alone, so runs with different numbers of threads return the same set.
C1_LatticeIsKeptSet ==
    pc = "done" =>
        /\ Elements(lattice) = {p \in Cube(n) : keep_point(p)}
        /\ NoRepeats(lattice)

\* two threads have each filtered a part of the cube
C1_Witness ==
    /\ pc = "done"
    /\ n >= 1
    /\ Cardinality(parts) >= 3
    /\ \E q \in parts : \E r \in parts : q.by # r.by /\ q.pts # <<>> /\ r.pts # <<>>

\* C2: for the levels 1 and 2 run by the test the returned vector has 20^n
\* points; at level 1 the cube has 27 candidates and 20 of them are kept.
C2_LatticeSize ==
    pc = "done" =>
        /\ n \in 1 .. (lattice_size_max_val - 1) => Len(lattice) = Pow(20, n)
        /\ n = 1 => (Cardinality(Cube(n)) = 27 /\ Len(lattice) = 20)

C2_Witness ==
    /\ pc = "done"
    /\ n = 2
    /\ Len(lattice) = 400

(***************************************************************************)
(* generate_vertices: the corners of the unit cells of the lattice points,  *)
(* collected in a HashSet.                                                  *)
(***************************************************************************)

\* a variant whose sixth insert repeats the fourth corner
InsertCorners_typo(acc, p) ==
    acc \cup {Point3(p.x + Half, p.y + Half, p.z + Half),
              Point3(p.x + Half, p.y + Half, p.z - Half),
              Point3(p.x + Half, p.y - Half, p.z + Half),
              Point3(p.x - Half, p.y + Half, p.z + Half),
              Point3(p.x + Half, p.y - Half, p.z - Half),
              Point3(p.x - Half, p.y + Half, p.z + Half),
              Point3(p.x - Half, p.y - Half, p.z + Half),
              Point3(p.x - Half, p.y - Half, p.z - Half)}

\* a variant without the last insert
InsertCorners_seven(acc, p) ==
    acc \cup {Point3(p.x + Half, p.y + Half, p.z + Half),
              Point3(p.x + Half, p.y + Half, p.z - Half),
              Point3(p.x + Half, p.y - Half, p.z + Half),
              Point3(p.x - Half, p.y + Half, p.z + Half),
              Point3(p.x + Half, p.y - Half, p.z - Half),
              Point3(p.x - Half, p.y + Half, p.z - Half),
              Point3(p.x - Half, p.y - Half, p.z + Half)}

\* a variant that starts a new set for every point
InsertCorners_reset(acc, p) ==
    {Point3(p.x + Half, p.y + Half, p.z + Half),
     Point3(p.x + Half, p.y + Half, p.z - Half),
     Point3(p.x + Half, p.y - Half, p.z + Half),
     Point3(p.x - Half, p.y + Half, p.z + Half),
     Point3(p.x + Half, p.y - Half, p.z - Half),
     Point3(p.x - Half, p.y + Half, p.z - Half),
     Point3(p.x - Half, p.y - Half, p.z + Half),
     Point3(p.x - Half, p.y - Half, p.z - Half)}

\* the eight inserts of one iteration of the loop
InsertCorners(acc, p) ==
    acc \cup {Point3(p.x + Half, p.y + Half, p.z + Half),
              Point3(p.x + Half, p.y + Half, p.z - Half),
              Point3(p.x + Half, p.y - Half, p.z + Half),
              Point3(p.x - Half, p.y + Half, p.z + Half),
              Point3(p.x + Half, p.y - Half, p.z - Half),
              Point3(p.x - Half, p.y + Half, p.z - Half),
              Point3(p.x - Half, p.y - Half, p.z + Half),
              Point3(p.x - Half, p.y - Half, p.z - Half)}

RECURSIVE ExpandFrom(_, _, _)
ExpandFrom(seq, t, acc) ==
    IF t > Len(seq) THEN acc
    ELSE ExpandFrom(seq, t + 1, InsertCorners(acc, seq[t]))

generate_vertices(seq) == ExpandFrom(seq, 1, {})

\* the lattice points given to generate_vertices: the points of the level 1
\* cube with y and z at most 1
InputPoints == {p \in Cube(1) : p.y <= One /\ p.z <= One}

InputLattices ==
    UNION {[1 .. len -> InputPoints] : len \in 0 .. MaxLen}

InitVert ==
    /\ lattice \in InputLattices
    /\ idx = 1
    /\ vertices = {}
    /\ pc = "expand"
    /\ n = 0
    /\ IdleGen
    /\ point = Point3(0, 0, 0)
    /\ i = 0
    /\ j = 0
    /\ k = 0
    /\ iters = 0
    /\ result = FALSE

ExpandPoint ==
    /\ pc = "expand"
    /\ idx <= Len(lattice)
    /\ vertices' = InsertCorners(vertices, lattice[idx])
    /\ idx' = idx + 1
    /\ UNCHANGED <<n, lattice, genVars, keepVars, pc>>

ExpandReturn ==
    /\ pc = "expand"
    /\ idx > Len(lattice)
    /\ pc' = "vdone"
    /\ UNCHANGED <<n, lattice, genVars, vertVars, keepVars>>

NextVert == ExpandPoint \/ ExpandReturn

SpecVert == InitVert /\ [][NextVert]_vars

(***************************************************************************)
(* Properties of the vertex expander.                                      *)
(***************************************************************************)
Offsets == {Half, 0 - Half}

AllCorners(ps) ==
    {Point3(p.x + a, p.y + b, p.z + c) : p \in ps, a \in Offsets, b \in Offsets, c \in Offsets}

Dist(a, b) == FAbs(a - b)

\* the two cells have a face in common
FaceAdjacent(p, q) ==
    \/ (Dist(p.x, q.x) = One /\ p.y = q.y /\ p.z = q.z)
    \/ (p.x = q.x /\ Dist(p.y, q.y) = One /\ p.z = q.z)
    \/ (p.x = q.x /\ p.y = q.y /\ Dist(p.z, q.z) = One)

\* the two points are at most one step apart on every axis
Touching(p, q) ==
    Dist(p.x, q.x) <= One /\ Dist(p.y, q.y) <= One /\ Dist(p.z, q.z) <= One

ShareCorner(p, q) == InsertCorners({}, p) \cap InsertCorners({}, q) # {}

Pairs(seq) == {pr \in (1 .. Len(seq)) \X (1 .. Len(seq)) : pr[1] < pr[2]}

Distinct(seq) == \A pr \in Pairs(seq) : seq[pr[1]] # seq[pr[2]]

Perms(len) ==
    {f \in [1 .. len -> 1 .. len] : \A a \in 1 .. len : \E b \in 1 .. len : f[b] = a}

\* C4: generate_vertices returns exactly the points (x + a, y + b, z + c) with
\* (x, y, z) an input point and a, b, c each +0.5 or -0.5.
C4_VerticesAreAllCorners ==
    pc = "vdone" => vertices = AllCorners(Elements(lattice))

C4_Witness ==
    /\ pc = "vdone"
    /\ Len(lattice) = 2
    /\ lattice[1] # lattice[2]
    /\ Point3(0 - Half, 0 - Half, 0 - Half) \in vertices
    /\ Point3(AsF64(2) + Half, One + Half, One + Half) \in vertices

\* C5: the vertex set has at most 8 vertices per input point, and exactly 8 per
\* input point only if no two input points share a corner; one input point
\* gives 8 vertices, two face-adjacent input points give fewer than 16.
C5_VertexCount ==
    pc = "vdone" =>
        /\ Cardinality(vertices) <= 8 * Len(lattice)
        /\ Cardinality(vertices) = 8 * Len(lattice) =>
              \A pr \in Pairs(lattice) : ~ShareCorner(lattice[pr[1]], lattice[pr[2]])
        /\ Len(lattice) = 1 => Cardinality(vertices) = 8
        /\ (Len(lattice) = 2 /\ FaceAdjacent(lattice[1], lattice[2])) =>
              Cardinality(vertices) < 16

C5_Witness ==
    /\ pc = "vdone"
    /\ Len(lattice) = 2
    /\ FaceAdjacent(lattice[1], lattice[2])
    /\ Cardinality(vertices) = 12

\* C6 as stated: every input of two or more distinct lattice points gives
\* fewer than 8 vertices per input point.
C6_Original ==
    (pc = "vdone" /\ Len(lattice) >= 2 /\ Distinct(lattice)) =>
        Cardinality(vertices) < 8 * Len(lattice)

\* C6 amended: an input of two or more distinct lattice points gives fewer than
\* 8 vertices per input point exactly when two of its points are at most one
\* step apart on every axis; otherwise it gives exactly 8 per input point.
C6_FewerIffTouching ==
    (pc = "vdone" /\ Len(lattice) >= 2 /\ Distinct(lattice)) =>
        /\ (Cardinality(vertices) < 8 * Len(lattice)) <=>
              (\E pr \in Pairs(lattice) : Touching(lattice[pr[1]], lattice[pr[2]]))
        /\ (~\E pr \in Pairs(lattice) : Touching(lattice[pr[1]], lattice[pr[2]])) =>
              Cardinality(vertices) = 8 * Len(lattice)

\* two cells that meet in a single corner
C6_Witness ==
    /\ pc = "vdone"
    /\ Len(lattice) = 2
    /\ lattice[1] = Point3(0, 0, 0)
    /\ lattice[2] = Point3(One, One, One)
    /\ Cardinality(vertices) = 15

\* C7: the vertex set does not depend on the order of the input: every
\* permutation of the input sequence gives the same set.
C7_OrderInvariant ==
    pc = "vdone" =>
        \A f \in Perms(Len(lattice)) :
            generate_vertices([t \in 1 .. Len(lattice) |-> lattice[f[t]]]) = vertices

C7_Witness ==
    /\ pc = "vdone"
    /\ Len(lattice) = MaxLen
    /\ Distinct(lattice)
    /\ ~Touching(lattice[1], lattice[2])

(***************************************************************************)
(* are_at_least_two_positive applied to arbitrary signed arguments.        *)
(***************************************************************************)
InitSign ==
    /\ i \in (0 - MaxAbs) .. MaxAbs
    /\ j \in (0 - MaxAbs) .. MaxAbs
    /\ k \in (0 - MaxAbs) .. MaxAbs
    /\ n = 0
    /\ point = Point3(0, 0, 0)
    /\ iters = 0
    /\ result = FALSE
    /\ pc = "sign_call"
    /\ lattice = <<>>
    /\ IdleGen
    /\ IdleVert

CallTwoPositive ==
    /\ pc = "sign_call"
    /\ result' = are_at_least_two_positive(i, j, k)
    /\ pc' = "sign_ret"
    /\ UNCHANGED <<n, lattice, genVars, vertVars, point, i, j, k, iters>>

NextSign == CallTwoPositive

SpecSign == InitSign /\ [][NextSign]_vars

(***************************************************************************)
(* Base-3 digits of the integer coordinates.                               *)
(***************************************************************************)
Digit(c, d) == ((c \div One) \div Pow(3, d)) % 3

MiddleDigits(p, d) ==
    {a \in {"x", "y", "z"} : Digit(p[a], d) = 1}

HasMiddlePair(p, lvl) ==
    \E d \in 0 .. (lvl - 1) : Cardinality(MiddleDigits(p, d)) >= 2

(***************************************************************************)
(* Properties of the membership test.                                      *)
(***************************************************************************)

\* C3: for every point of [0, 3^n)^3, keep_point returns false exactly when
\* some base-3 digit position has digit 1 in at least two coordinates;
\* keep_point(2,2,2) is true and keep_point(4,5,3) is false.
C3_KeepPointIsDigitTest ==
    pc = "ret" =>
        /\ (result = FALSE) <=> HasMiddlePair(point, n)
        /\ point = Point3(AsF64(2), AsF64(2), AsF64(2)) => result = TRUE
        /\ point = Point3(AsF64(4), AsF64(5), AsF64(3)) => result = FALSE

\* the loop stopped early, with one working coordinate still positive
C3_Witness ==
    /\ pc = "ret"
    /\ result = TRUE
    /\ iters >= 1
    /\ (i > 0 \/ j > 0 \/ k > 0)

\* C8: are_at_least_two_positive(i, j, k) is true exactly when at least two
\* of the three arguments are strictly greater than zero.
C8_TwoPositive ==
    pc = "sign_ret" =>
        (result = (Cardinality({a \in 1 .. 3 : <<i, j, k>>[a] > 0}) >= 2))

C8_Witness ==
    /\ pc = "sign_ret"
    /\ i < 0
    /\ j > 0
    /\ k > 0
    /\ result = TRUE

\* C9: on integer coordinates of [0, 3^n) the epsilon-tolerance predicate and
\* the exact-equality predicate agree on every working triple, and the two
\* keep_point variants return the same result, which is the exact base-3
\* digit classification.
C9_VariantsAgree ==
    /\ pc = "loop" => (is_condition_met(i, j, k) = is_condition_met_exact(i, j, k))
    /\ pc = "ret" =>
          /\ result = keep_point_exact(point)
          /\ result = ~HasMiddlePair(point, n)

\* a rejection found at the second digit
C9_Witness ==
    /\ pc = "ret"
    /\ result = FALSE
    /\ iters = 2
    /\ point = Point3(AsF64(4), AsF64(5), AsF64(3))

IsNatValue(c) == c >= 0 /\ c % One = 0

ShiftDecreases ==
    (pc = "loop" /\ pc' = "loop") =>
        /\ i' = AsF64((i \div One) \div 3) /\ IsNatValue(i') /\ (i > 0 => i' < i)
        /\ j' = AsF64((j \div One) \div 3) /\ IsNatValue(j') /\ (j > 0 => j' < j)
        /\ k' = AsF64((k \div One) \div 3) /\ IsNatValue(k') /\ (k > 0 => k' < k)

\* C10: for every point of [0, 3^n)^3 the loop of keep_point returns after at
\* most n iterations; each iteration that does not reject replaces every
\* coordinate by floor(coordinate / 3), a non-negative integer that is
\* strictly smaller when the coordinate was positive.
C10_KeepPointTerminates ==
    /\ <>(pc = "ret")
    /\ [](iters <= n)
    /\ [][ShiftDecreases]_vars

\* the bound n is reached
C10_Witness ==
    /\ pc = "ret"
    /\ n = 2
    /\ iters = n

====
